---- MODULE Spec2Model ----
(***************************************************************************)
(* Host-side driver of the AD122U04 / AD112U04 delta-sigma ADC             *)
(* (src/__init__.py).  The driver keeps no configuration of its own: every *)
(* setting lives in the device's 8-bit registers and is reached through    *)
(* read_reg / write_reg over a serial transport.  The model holds the      *)
(* device's register file, the driver's only attribute besides the         *)
(* transport (_query_drdy_pin_function), and a record of the call that     *)
(* ran last: its name, argument, the register file before it, the bytes it *)
(* exchanged with the transport, and how it ended.  Spec has a transport   *)
(* that delivers every byte asked for and nothing else; SpecTransport has  *)
(* the transport pyserial provides, where a read may time out and bytes    *)
(* nobody asked for wait in the receive buffer.                            *)
(***************************************************************************)
EXTENDS Integers, Sequences, FiniteSets, TLC

(***************************************************************************)
(* Bounds of the model.                                                    *)
(***************************************************************************)
\* read_data(count) is explored for 2 <= count <= MaxCount
MaxCount == 3
\* wait_valid_data(timeout) is explored for -1 <= timeout <= MaxTimeout
MaxTimeout == 2
\* a wait loop that has not ended after MaxTimeout + PollSlack polls is cut
PollSlack == 2

\* read_reg(reg) and write_reg(reg, data) are explored for 0 <= reg <= MaxRegArg
MaxRegArg == 8
\* a streaming device sends up to MaxResidual samples after the last one read
MaxResidual == 1
\* after a start the device is ready at one of the first MaxLatency polls, or never
MaxLatency == 1

Byte == 0..255

(***************************************************************************)
(* Python's integer operators on non-negative integers.                    *)
(***************************************************************************)
RECURSIVE BitAnd(_, _)
BitAnd(a, b) ==
    IF a = 0 \/ b = 0 THEN 0
    ELSE ((a % 2) * (b % 2)) + 2 * BitAnd(a \div 2, b \div 2)

RECURSIVE BitOr(_, _)
BitOr(a, b) ==
    IF a = 0 THEN b
    ELSE IF b = 0 THEN a
    ELSE (IF (a % 2) + (b % 2) > 0 THEN 1 ELSE 0) + 2 * BitOr(a \div 2, b \div 2)

RECURSIVE BitXor(_, _)
BitXor(a, b) ==
    IF a = 0 THEN b
    ELSE IF b = 0 THEN a
    ELSE (((a % 2) + (b % 2)) % 2) + 2 * BitXor(a \div 2, b \div 2)

ShiftLeft(a, n) == a * (2 ^ n)

ShiftRight(a, n) == a \div (2 ^ n)

\* int(math.log2(value)) for the powers of two set_gain accepts
RECURSIVE Log2(_)
Log2(v) == IF v <= 1 THEN 0 ELSE 1 + Log2(v \div 2)

\* int.from_bytes(data, 'little', signed=False)
RECURSIVE FromBytesUnsigned(_)
FromBytesUnsigned(data) ==
    IF data = <<>> THEN 0
    ELSE Head(data) + 256 * FromBytesUnsigned(Tail(data))

\* int.from_bytes(data, 'little', signed=True)
FromBytesSigned(data) ==
    IF data # <<>> /\ data[Len(data)] >= 128
    THEN FromBytesUnsigned(data) - (2 ^ (8 * Len(data)))
    ELSE FromBytesUnsigned(data)

(***************************************************************************)
(* Class constants.                                                        *)
(***************************************************************************)
CMD_SYNC == 85
CMD_RESET == 6
CMD_START == 8
CMD_POWERDOWN == 2
CMD_RDATA == 16
CMD_RREG == 32
CMD_WREG == 64

Parts == {"AD122U04", "AD112U04"}

READ_DATA_BYTES(p) == IF p = "AD112U04" THEN 2 ELSE 3

READ_DATA_BITS(p) == IF p = "AD112U04" THEN 16 ELSE 24

\* Keys are written as Python prints them: a tuple, an int or a string.
MUX_CTRL ==
    ("(0, 1)" :> 0) @@ ("(0, 2)" :> 1) @@ ("(0, 3)" :> 2) @@ ("(1, 0)" :> 3) @@
    ("(1, 2)" :> 4) @@ ("(1, 3)" :> 5) @@ ("(2, 3)" :> 6) @@ ("(3, 2)" :> 7) @@
    ("0" :> 8) @@ ("1" :> 9) @@ ("2" :> 10) @@ ("3" :> 11) @@
    ("VREFDIFF" :> 12) @@ ("ASUPPLYDIFF" :> 13) @@ ("ASUPPLYCENTER" :> 14)

GAINS == {1, 2, 4, 8, 16, 32, 64, 128}

DATA_RATES_NORMAL_MODE ==
    (20 :> 0) @@ (45 :> 1) @@ (90 :> 2) @@ (175 :> 3) @@
    (330 :> 4) @@ (600 :> 5) @@ (1000 :> 6)

DATA_RATES_TURBO_MODE ==
    (40 :> 0) @@ (90 :> 1) @@ (180 :> 2) @@ (350 :> 3) @@
    (660 :> 4) @@ (1200 :> 5) @@ (2000 :> 6)

VREF == ("INTERNAL" :> 0) @@ ("EXTERNAL" :> 1) @@ ("ANALOGSUPPLY" :> 2)

GPIO_DATA == (2 :> 4) @@ (1 :> 2) @@ (0 :> 1)

GPIO_DIR == (2 :> 64) @@ (1 :> 32) @@ (0 :> 16)

GPIO_DIR_INPUT == 0

GPIO_DIR_OUTPUT == 1

\* "for key, value in table.items(): if value == code: return key"; the
\* tables' values are distinct, so at most one key matches.  none is what the
\* caller gets when the loop ends without a match.
ReverseLookup(table, code, none) ==
    IF \E k \in DOMAIN table : table[k] = code
    THEN CHOOSE k \in DOMAIN table : table[k] = code
    ELSE none


(***************************************************************************)
(* State.                                                                  *)
(***************************************************************************)
VARIABLES
    regs,      \* the device's registers 0..4, one byte each
    probe,     \* self._query_drdy_pin_function: "None" or "probe"
    part,      \* the class of the driver object, which fixes the sample width
    focus,     \* the group of operations this behaviour exercises
    pc,        \* "idle", or "wait" inside the loop of wait_valid_data
    op,        \* the call that ran last (or is running)
    arg,       \* its argument
    pre,       \* the register file when it was called
    wire,      \* the transport traffic of the call, in order
    ret,       \* its return value ("None" when it returns nothing)
    exc,       \* "none", or the exception that ended it
    timeout,   \* wait_valid_data's countdown
    polls,     \* readiness polls made by the running wait_valid_data
    rxbuf      \* bytes received and not yet read: the transport's receive buffer

vars == <<regs, probe, part, focus, pc, op, arg, pre, wire, ret, exc, timeout, polls, rxbuf>>

RegIdx == 0..4

\* One entry of the traffic log: a serial.write(data), a serial.read(n) that
\* returned data, or a call of the installed probe.
TxEv(data) == [kind |-> "write", n |-> Len(data), data |-> data]

RxEv(n, data) == [kind |-> "read", n |-> n, data |-> data]

ProbeEv == [kind |-> "probe", n |-> 0, data |-> <<>>]

(***************************************************************************)
(* Low-level register access.  The device answers a register read with the *)
(* register's byte and stores the data byte of a register write.           *)
(***************************************************************************)
\* the frame of read_reg with the register number left unmasked
RregFrame_unmasked(reg) == <<CMD_SYNC, BitOr(CMD_RREG, reg * 2)>>

RregFrame(reg) == <<CMD_SYNC, BitOr(CMD_RREG, BitAnd(15, reg * 2))>>

WregFrame(reg, data) == <<CMD_SYNC, BitOr(CMD_WREG, BitAnd(15, reg * 2)), data>>

\* the value read_reg(reg) returns on register file r
read_reg(r, reg) == FromBytesUnsigned(<<r[reg]>>)

\* the traffic of read_reg(reg) on register file r
read_reg_wire(r, reg) == <<TxEv(RregFrame(reg)), RxEv(1, <<r[reg]>>)>>

\* the register file after write_reg(reg, data)
write_reg(r, reg, data) == [r EXCEPT ![reg] = data]

\* the traffic of write_reg(reg, data)
write_reg_wire(reg, data) == <<TxEv(WregFrame(reg, data))>>

\* How a call ends: the register file it leaves, its traffic, what it returns
\* and the exception that ended it.
Returns(r, w, v) == [regs |-> r, wire |-> w, ret |-> v, exc |-> "none"]

Raises(r, w, e) == [regs |-> r, wire |-> w, ret |-> "None", exc |-> e]

\* a setter that writes its word without the register read
ReadModifyWrite_blind(r, reg, data) ==
    Returns(write_reg(r, reg, data), write_reg_wire(reg, data), "None")

\* A setter that got past its validation: one register read, one register
\* write of the word computed from the value read.
ReadModifyWrite(r, reg, data) ==
    Returns(write_reg(r, reg, data),
            read_reg_wire(r, reg) \o write_reg_wire(reg, data), "None")

\* The register a frame addresses: the device takes the number from bits 3:1
\* of the command byte, where the driver has put reg * 2.
DeviceReg(frame) == ShiftRight(BitAnd(frame[2], 14), 1)

\* read_reg(reg) called by the user with any index; an address without a
\* register behind it is answered with the byte none
read_reg_call(r, reg, none) ==
    LET a == DeviceReg(RregFrame(reg))
        byte == IF a \in RegIdx THEN r[a] ELSE none
    IN  Returns(r, <<TxEv(RregFrame(reg)), RxEv(1, <<byte>>)>>,
                FromBytesUnsigned(<<byte>>))

\* write_reg(reg, data) called by the user with any index
write_reg_call(r, reg, data) ==
    LET a == DeviceReg(WregFrame(reg, data))
    IN  Returns(IF a \in RegIdx THEN write_reg(r, a, data) ELSE r,
                <<TxEv(WregFrame(reg, data))>>, "None")

(***************************************************************************)
(* Register 0: input multiplexer, gain, PGA bypass.                        *)
(***************************************************************************)
set_mux(r, value) ==
    IF value \in DOMAIN MUX_CTRL
    THEN LET reg_0 == BitAnd(read_reg(r, 0), 15)
             mux_code == MUX_CTRL[value]
         IN  ReadModifyWrite(r, 0, BitOr(ShiftLeft(mux_code, 4), reg_0))
    ELSE Raises(r, <<>>, "ValueError")

get_mux(r) ==
    LET reg_0 == ShiftRight(read_reg(r, 0), 4)
    IN  Returns(r, read_reg_wire(r, 0), ReverseLookup(MUX_CTRL, reg_0, "None"))

\* set_gain with the mask 0xf0 in place of 0xf1: bit 0 is cleared too
set_gain_mask_f0(r, value) ==
    IF value \in GAINS
    THEN LET reg_0 == BitAnd(read_reg(r, 0), 240)
         IN  ReadModifyWrite(r, 0, BitOr(ShiftLeft(Log2(value), 1), reg_0))
    ELSE Raises(r, <<>>, "ValueError")

set_gain(r, value) ==
    IF value \in GAINS
    THEN LET reg_0 == BitAnd(read_reg(r, 0), 241)
         IN  ReadModifyWrite(r, 0, BitOr(ShiftLeft(Log2(value), 1), reg_0))
    ELSE Raises(r, <<>>, "ValueError")

get_gain(r) ==
    LET gain_reg_value == ShiftRight(BitAnd(read_reg(r, 0), 15), 1)
    IN  Returns(r, read_reg_wire(r, 0), 2 ^ gain_reg_value)

\* set_disable_pga with the mask 0xf0 in place of 0xfe: the gain is cleared
set_disable_pga_mask_f0(r, value) ==
    LET reg_0 == BitAnd(read_reg(r, 0), 240)
    IN  IF value THEN ReadModifyWrite(r, 0, BitOr(reg_0, 1))
        ELSE ReadModifyWrite(r, 0, reg_0)

set_disable_pga(r, value) ==
    LET reg_0 == BitAnd(read_reg(r, 0), 254)
    IN  IF value THEN ReadModifyWrite(r, 0, BitOr(reg_0, 1))
        ELSE ReadModifyWrite(r, 0, reg_0)

get_disable_pga(r) ==
    Returns(r, read_reg_wire(r, 0), BitAnd(read_reg(r, 0), 1) = 1)

(***************************************************************************)
(* Register 1: data rate with turbo flag, reference source.                *)
(***************************************************************************)
\* set_data_rate with the turbo flag put in bit 3 in place of bit 4
set_data_rate_turbo_bit3(r, dr) ==
    LET reg_1 == BitAnd(read_reg(r, 1), 15)
    IN  IF dr \in DOMAIN DATA_RATES_NORMAL_MODE
        THEN LET drv == DATA_RATES_NORMAL_MODE[dr]
             IN  ReadModifyWrite(r, 1, BitOr(ShiftLeft(drv, 5), reg_1))
        ELSE IF dr \in DOMAIN DATA_RATES_TURBO_MODE
        THEN LET drv == DATA_RATES_TURBO_MODE[dr]
             IN  ReadModifyWrite(r, 1, BitOr(ShiftLeft(drv, 5) + 8, reg_1))
        ELSE Raises(r, read_reg_wire(r, 1), "ValueError")

set_data_rate(r, dr) ==
    LET reg_1 == BitAnd(read_reg(r, 1), 15)
    IN  IF dr \in DOMAIN DATA_RATES_NORMAL_MODE
        THEN LET drv == DATA_RATES_NORMAL_MODE[dr]
             IN  ReadModifyWrite(r, 1, BitOr(ShiftLeft(drv, 5), reg_1))
        ELSE IF dr \in DOMAIN DATA_RATES_TURBO_MODE
        THEN LET drv == DATA_RATES_TURBO_MODE[dr]
             IN  ReadModifyWrite(r, 1, BitOr(ShiftLeft(drv, 5) + 16, reg_1))
        ELSE Raises(r, read_reg_wire(r, 1), "ValueError")

get_data_rate(r) ==
    LET reg_1 == ShiftRight(BitAnd(read_reg(r, 1), 240), 4)
        turbomode == BitAnd(reg_1, 1) # 0
        drv == ShiftRight(reg_1, 1)
        dr == IF turbomode
              THEN ReverseLookup(DATA_RATES_TURBO_MODE, drv, 0)
              ELSE ReverseLookup(DATA_RATES_NORMAL_MODE, drv, 0)
    IN  Returns(r, read_reg_wire(r, 1), <<dr, turbomode>>)

\* The message of the ValueError is built from VREF.keys(), and the bare name
\* VREF is not bound in the method's scope: building it raises NameError.
set_vref(r, value) ==
    LET reg_1 == BitAnd(read_reg(r, 1), 241)
    IN  IF value \in DOMAIN VREF
        THEN ReadModifyWrite(r, 1, BitOr(reg_1, ShiftLeft(VREF[value], 1)))
        ELSE Raises(r, read_reg_wire(r, 1), "NameError")

get_vref(r) ==
    LET raw == ShiftRight(BitAnd(read_reg(r, 1), 7), 1)
        vref == IF raw = 3 THEN 2 ELSE raw
    IN  Returns(r, read_reg_wire(r, 1), ReverseLookup(VREF, vref, "None"))

(***************************************************************************)
(* Register 4: GPIO value and direction, DRDY pin mode.                    *)
(***************************************************************************)
set_gpio(r, io, value) ==
    IF io \notin DOMAIN GPIO_DATA THEN Raises(r, <<>>, "ValueError")
    ELSE IF value \notin {0, 1} THEN Raises(r, <<>>, "ValueError")
    ELSE LET cleared == BitAnd(read_reg(r, 4), BitXor(255, GPIO_DATA[io]))
             reg_4 == IF value # 0 THEN BitOr(cleared, GPIO_DATA[io]) ELSE cleared
         IN  ReadModifyWrite(r, 4, reg_4)

\* set_gpio_dir whose input branch masks with the pin's bit, not with its
\* complement
set_gpio_dir_mask_not_inverted(r, io, dir) ==
    IF io \notin DOMAIN GPIO_DIR THEN Raises(r, <<>>, "ValueError")
    ELSE IF dir \notin {0, 1} THEN Raises(r, <<>>, "ValueError")
    ELSE LET reg_4 == read_reg(r, 4)
         IN  IF dir # 0
             THEN ReadModifyWrite(r, 4, BitOr(reg_4, GPIO_DIR[io]))
             ELSE ReadModifyWrite(r, 4, BitAnd(reg_4, GPIO_DIR[io]))

set_gpio_dir(r, io, dir) ==
    IF io \notin DOMAIN GPIO_DIR THEN Raises(r, <<>>, "ValueError")
    ELSE IF dir \notin {0, 1} THEN Raises(r, <<>>, "ValueError")
    ELSE LET reg_4 == read_reg(r, 4)
         IN  IF dir # 0
             THEN ReadModifyWrite(r, 4, BitOr(reg_4, GPIO_DIR[io]))
             ELSE ReadModifyWrite(r, 4, BitAnd(reg_4, BitXor(255, GPIO_DIR[io])))

get_gpio(r, io) ==
    IF io \notin DOMAIN GPIO_DATA THEN Raises(r, <<>>, "ValueError")
    ELSE IF BitOr(read_reg(r, 4), GPIO_DATA[io]) # 0
         THEN Returns(r, read_reg_wire(r, 4), 1)
         ELSE Returns(r, read_reg_wire(r, 4), 0)

get_gpio_dir(r, io) ==
    IF io \notin DOMAIN GPIO_DIR THEN Raises(r, <<>>, "ValueError")
    ELSE IF BitAnd(read_reg(r, 4), GPIO_DIR[io]) # 0
         THEN Returns(r, read_reg_wire(r, 4), GPIO_DIR_OUTPUT)
         ELSE Returns(r, read_reg_wire(r, 4), GPIO_DIR_INPUT)

\* Both branches name reg4, which is never bound (the value read is held in
\* reg_4): evaluating the argument of write_reg raises NameError, before any
\* write and before the assignment of the probe.
set_query_drdy_funtion(r, funcptr) ==
    Raises(r, read_reg_wire(r, 4), "NameError")

(***************************************************************************)
(* Commands and continuous acquisition.                                    *)
(***************************************************************************)
start_wire == <<TxEv(<<CMD_SYNC, CMD_START>>)>>

powerdown_wire == <<TxEv(<<CMD_SYNC, CMD_POWERDOWN>>)>>

\* The samples the streaming device delivers: -1, 256 and the most negative
\* value of the part's width, each as READ_DATA_BYTES bytes, least
\* significant byte first.
DeviceSample(p, k) ==
    LET n == READ_DATA_BYTES(p)
    IN  IF k = 0 THEN [i \in 1..n |-> 255]
        ELSE IF k = 1 THEN [i \in 1..n |-> IF i = 2 THEN 1 ELSE 0]
        ELSE [i \in 1..n |-> IF i = n THEN 128 ELSE 0]

\* What the device may stream into count reads: the three samples in turn,
\* from any of them on, so that neighbours always differ.
DeviceStreams(p, count) ==
    { [i \in 1..count |-> DeviceSample(p, (k + i) % 3)] : k \in 0..2 }

\* read_data that turns auto mode off in register 1 only: register 3 keeps
\* the enable bit the call has set
read_data_stream_reg3_left_on(r, p, count, chunks) ==
    LET reg_1 == read_reg(r, 1)
        reg_3 == read_reg(r, 3)
        auto == write_reg(write_reg(r, 1, BitOr(reg_1, 8)), 3, BitOr(reg_3, 1))
        data == [i \in 1..count |-> FromBytesSigned(chunks[i])]
        off == write_reg(auto, 1, BitAnd(reg_1, 247))
    IN  Returns(off,
                read_reg_wire(r, 1) \o read_reg_wire(r, 3)
                \o write_reg_wire(1, BitOr(reg_1, 8))
                \o write_reg_wire(3, BitOr(reg_3, 1))
                \o start_wire
                \o [i \in 1..count |-> RxEv(READ_DATA_BYTES(p), chunks[i])]
                \o powerdown_wire
                \o write_reg_wire(1, BitAnd(reg_1, 247)),
                data)

\* read_data whose loop runs over range(1, count): one sample short
read_data_stream_one_short(r, p, count, chunks) ==
    LET reg_1 == read_reg(r, 1)
        reg_3 == read_reg(r, 3)
        auto == write_reg(write_reg(r, 1, BitOr(reg_1, 8)), 3, BitOr(reg_3, 1))
        data == [i \in 1..(count - 1) |-> FromBytesSigned(chunks[i])]
        off == write_reg(write_reg(auto, 3, BitAnd(reg_3, 254)), 1, BitAnd(reg_1, 247))
    IN  Returns(off,
                read_reg_wire(r, 1) \o read_reg_wire(r, 3)
                \o write_reg_wire(1, BitOr(reg_1, 8))
                \o write_reg_wire(3, BitOr(reg_3, 1))
                \o start_wire
                \o [i \in 1..(count - 1) |-> RxEv(READ_DATA_BYTES(p), chunks[i])]
                \o powerdown_wire
                \o write_reg_wire(3, BitAnd(reg_3, 254))
                \o write_reg_wire(1, BitAnd(reg_1, 247)),
                data)

\* read_data(count) with count # 1, the device delivering chunks[1..count]
read_data_stream(r, p, count, chunks) ==
    LET reg_1 == read_reg(r, 1)
        reg_3 == read_reg(r, 3)
        auto == write_reg(write_reg(r, 1, BitOr(reg_1, 8)), 3, BitOr(reg_3, 1))
        data == [i \in 1..count |-> FromBytesSigned(chunks[i])]
        off == write_reg(write_reg(auto, 3, BitAnd(reg_3, 254)), 1, BitAnd(reg_1, 247))
    IN  Returns(off,
                read_reg_wire(r, 1) \o read_reg_wire(r, 3)
                \o write_reg_wire(1, BitOr(reg_1, 8))
                \o write_reg_wire(3, BitOr(reg_3, 1))
                \o start_wire
                \o [i \in 1..count |-> RxEv(READ_DATA_BYTES(p), chunks[i])]
                \o powerdown_wire
                \o write_reg_wire(3, BitAnd(reg_3, 254))
                \o write_reg_wire(1, BitAnd(reg_1, 247)),
                data)

(***************************************************************************)
(* wait_valid_data: one poll of the loop, either strategy.  ready is what  *)
(* the poll observed; the result is the countdown after the iteration and  *)
(* whether the loop goes on.                                               *)
(***************************************************************************)
PollStep(t, ready) ==
    IF ready THEN [timeout |-> t, again |-> FALSE]
    ELSE [timeout |-> t - 1, again |-> (t - 1 # 0)]

\* timeout=100, the default the driver's own calls of wait_valid_data use
DEFAULT_TIMEOUT == 100

\* The polls wait_valid_data(t) makes when poll number k is the first to
\* observe readiness (k = 0: none does), i polls having been made.
RECURSIVE wait_polls(_, _, _)
wait_polls(t, k, i) ==
    LET step == PollStep(t, i + 1 = k)
    IN  IF step.again THEN wait_polls(step.timeout, k, i + 1) ELSE i + 1

\* wait_valid_data(t) run to its end, with the strategy the probe pr selects:
\* the registers it leaves (DRDY as the last poll saw it), its traffic and
\* the number of polls.
wait_valid_data(r, pr, t, k) ==
    LET n == wait_polls(t, k, 0)
        dev(i) == [r EXCEPT ![2] = (r[2] % 128) + (IF i = k THEN 128 ELSE 0)]
        busy == read_reg_wire(dev(k + 1), 2)
        ready == read_reg_wire(dev(k), 2)
    IN  IF pr = "None"
        THEN [regs |-> dev(n),
              wire |-> [j \in 1..(2 * n) |->
                           IF (j + 1) \div 2 = k THEN ready[2 - (j % 2)] ELSE busy[2 - (j % 2)]],
              polls |-> n]
        ELSE [regs |-> r, wire |-> [j \in 1..n |-> ProbeEv], polls |-> n]

\* the traffic of read_raw_data(), the device answering with chunk
read_raw_data_wire(p, chunk) ==
    <<TxEv(<<CMD_SYNC, CMD_RDATA>>), RxEv(READ_DATA_BYTES(p), chunk)>>

\* read_data() that gives up when the wait has ended without readiness
read_data_single_raises_on_timeout(r, pr, p, k, chunk) ==
    LET w == wait_valid_data(r, pr, DEFAULT_TIMEOUT, k)
    IN  IF k = 0 THEN Raises(w.regs, start_wire \o w.wire, "TimeoutError")
        ELSE Returns(w.regs, start_wire \o w.wire \o read_raw_data_wire(p, chunk),
                     FromBytesSigned(chunk))

\* read_data(), that is count = 1: start, wait, read the sample
read_data_single(r, pr, p, k, chunk) ==
    LET w == wait_valid_data(r, pr, DEFAULT_TIMEOUT, k)
    IN  Returns(w.regs, start_wire \o w.wire \o read_raw_data_wire(p, chunk),
                FromBytesSigned(chunk))

\* read_data_normalised(): the quotient is computed and dropped, the method
\* has no return statement
read_data_normalised(r, pr, p, k, chunk) ==
    LET data == read_data_single(r, pr, p, k, chunk)
        quotient == [num |-> data.ret, den |-> 2 ^ READ_DATA_BITS(p)]
    IN  Returns(data.regs, data.wire, "None")

\* read_temperature with the write that ends TS mode clearing bit 0, whatever
\* the bit was before the call
read_temperature_ts_cleared(r, pr, p, k1, k2, chunk) ==
    LET reg_1 == read_reg(r, 1)
        w == wait_valid_data(write_reg(r, 1, BitOr(reg_1, 1)), pr, DEFAULT_TIMEOUT, k1)
        data == read_data_single(w.regs, pr, p, k2, chunk)
        t_data == [num |-> ShiftRight(data.ret, READ_DATA_BITS(p) - 14), den |-> 32]
    IN  Returns(write_reg(data.regs, 1, BitAnd(reg_1, 254)),
                read_reg_wire(r, 1) \o write_reg_wire(1, BitOr(reg_1, 1))
                \o start_wire \o w.wire
                \o data.wire
                \o write_reg_wire(1, BitAnd(reg_1, 254)),
                t_data)

\* read_temperature(): TS mode on, start, wait, read_data(), TS mode as it
\* was.  The factor 0.03125 is kept as the denominator 32.
read_temperature(r, pr, p, k1, k2, chunk) ==
    LET reg_1 == read_reg(r, 1)
        w == wait_valid_data(write_reg(r, 1, BitOr(reg_1, 1)), pr, DEFAULT_TIMEOUT, k1)
        data == read_data_single(w.regs, pr, p, k2, chunk)
        t_data == [num |-> ShiftRight(data.ret, READ_DATA_BITS(p) - 14), den |-> 32]
    IN  Returns(write_reg(data.regs, 1, reg_1),
                read_reg_wire(r, 1) \o write_reg_wire(1, BitOr(reg_1, 1))
                \o start_wire \o w.wire
                \o data.wire
                \o write_reg_wire(1, reg_1),
                t_data)

(***************************************************************************)
(* Initial states.  A behaviour exercises one group of operations (focus). *)
(* The register that group works on starts with any byte; continuous       *)
(* acquisition works on registers 1 and 3, which start equal or            *)
(* complementary: every byte for each, and every combination of the two    *)
(* bits the acquisition toggles.  The registers a group leaves alone start *)
(* with the pattern 0xA5.  The temperature read works on register 1; raw   *)
(* register access starts from cleared registers, the wait loop and the    *)
(* single-sample acquisition from registers all 0x00 or all 0xFF.          *)
(***************************************************************************)
Focuses == {"reg0", "reg1", "reg4", "acq", "wait", "raw", "single", "temp"}

FocusReg == ("reg0" :> 0) @@ ("reg1" :> 1) @@ ("reg4" :> 4) @@ ("temp" :> 1)

Untouched == (10 * 16) + 5

InitRegs(f) ==
    IF f \in DOMAIN FocusReg
    THEN { [i \in RegIdx |-> IF i = FocusReg[f] THEN v ELSE Untouched] : v \in Byte }
    ELSE IF f = "acq"
    THEN UNION { { [i \in RegIdx |-> IF i = 1 THEN v ELSE IF i = 3 THEN w ELSE Untouched] :
                       w \in {v, 255 - v} } : v \in Byte }
    ELSE IF f = "raw"
    THEN { [i \in RegIdx |-> 0] }
    ELSE { [i \in RegIdx |-> c] : c \in {0, 255} }

\* The sample width matters to the acquisition only.
InitParts(f) == IF f \in {"acq", "wait", "single"} THEN Parts ELSE {"AD122U04"}

Init ==
    /\ focus \in Focuses
    /\ regs \in InitRegs(focus)
    /\ probe = "None"
    /\ part \in InitParts(focus)
    /\ pc = "idle"
    /\ op = "__init__"
    /\ arg = "None"
    /\ pre = regs
    /\ wire = <<>>
    /\ ret = "None"
    /\ exc = "none"
    /\ timeout = 0
    /\ polls = 0
    /\ rxbuf = <<>>

(***************************************************************************)
(* Calls.  A call that runs no wait loop is one step.                      *)
(***************************************************************************)
Call(f, o, a, res) ==
    /\ pc = "idle"
    /\ focus = f
    /\ op' = o
    /\ arg' = a
    /\ pre' = regs
    /\ regs' = res.regs
    /\ wire' = res.wire
    /\ ret' = res.ret
    /\ exc' = res.exc
    /\ UNCHANGED <<probe, part, focus, pc, timeout, polls>>

\* a call over a transport that delivers every byte asked for and nothing else
Do(f, o, a, res) == Call(f, o, a, res) /\ UNCHANGED rxbuf

MuxArgs == DOMAIN MUX_CTRL \cup {"5"}

GainArgs == GAINS \cup {3}

DataRateArgs == DOMAIN DATA_RATES_NORMAL_MODE \cup DOMAIN DATA_RATES_TURBO_MODE \cup {999}

VrefArgs == DOMAIN VREF \cup {"BANDGAP"}

PinArgs == {0, 1, 2, 9}

LevelArgs == {0, 1, 2}

SetMux == \E value \in MuxArgs : Do("reg0", "set_mux", value, set_mux(regs, value))

GetMux == Do("reg0", "get_mux", "None", get_mux(regs))

SetGain == \E value \in GainArgs : Do("reg0", "set_gain", value, set_gain(regs, value))

GetGain == Do("reg0", "get_gain", "None", get_gain(regs))

SetDisablePga ==
    \E value \in BOOLEAN : Do("reg0", "set_disable_pga", value, set_disable_pga(regs, value))

GetDisablePga == Do("reg0", "get_disable_pga", "None", get_disable_pga(regs))

SetDataRate ==
    \E dr \in DataRateArgs : Do("reg1", "set_data_rate", dr, set_data_rate(regs, dr))

GetDataRate == Do("reg1", "get_data_rate", "None", get_data_rate(regs))

SetVref == \E value \in VrefArgs : Do("reg1", "set_vref", value, set_vref(regs, value))

GetVref == Do("reg1", "get_vref", "None", get_vref(regs))

SetGpio ==
    \E io \in PinArgs, value \in LevelArgs :
        Do("reg4", "set_gpio", <<io, value>>, set_gpio(regs, io, value))

SetGpioDir ==
    \E io \in PinArgs, dir \in LevelArgs :
        Do("reg4", "set_gpio_dir", <<io, dir>>, set_gpio_dir(regs, io, dir))

GetGpio == \E io \in PinArgs : Do("reg4", "get_gpio", io, get_gpio(regs, io))

GetGpioDir == \E io \in PinArgs : Do("reg4", "get_gpio_dir", io, get_gpio_dir(regs, io))

\* The assignment of the probe is the handler's last statement, which the
\* NameError keeps it from reaching: the attribute stays as it was.
SetQueryDrdyFunction ==
    \E funcptr \in {"None", "probe"} :
        Do("reg4", "set_query_drdy_funtion", funcptr, set_query_drdy_funtion(regs, funcptr))

ReadDataStream ==
    \E count \in 2..MaxCount :
        \E chunks \in DeviceStreams(part, count) :
            Do("acq", "read_data", count, read_data_stream(regs, part, count, chunks))

\* read_reg and write_reg are public: the user calls them with any index.
RegArgs == 0..MaxRegArg

WriteData == {1, 165}

ReadReg ==
    \E reg \in RegArgs, none \in {0, 255} :
        Do("raw", "read_reg", reg, read_reg_call(regs, reg, none))

WriteReg ==
    \E reg \in RegArgs, data \in WriteData :
        Do("raw", "write_reg", <<reg, data>>, write_reg_call(regs, reg, data))

\* The poll that first observes readiness after a start: one of the first
\* MaxLatency, or none (0).
ReadyAt == 0..MaxLatency

ReadDataSingle ==
    \E k \in ReadyAt, chunks \in DeviceStreams(part, 1) :
        Do("single", "read_data", 1, read_data_single(regs, probe, part, k, chunks[1]))

ReadDataNormalised ==
    \E k \in ReadyAt, chunks \in DeviceStreams(part, 1) :
        Do("single", "read_data_normalised", "None",
           read_data_normalised(regs, probe, part, k, chunks[1]))

\* The temperature sample the device delivers is -1: the shift of a negative
\* sample rounds down.
ReadTemperature ==
    \E k1 \in ReadyAt, k2 \in ReadyAt :
        Do("temp", "read_temperature", "None",
           read_temperature(regs, probe, part, k1, k2, DeviceSample(part, 0)))

(***************************************************************************)
(* wait_valid_data(timeout): the call enters the loop, each poll is a step *)
(* and the poll that breaks the loop returns.  The attribute               *)
(* _query_drdy_pin_function is public to Python: since the installer above *)
(* never assigns it, a caller that wants the probe strategy assigns it     *)
(* itself.                                                                 *)
(***************************************************************************)
AssignProbe ==
    /\ pc = "idle"
    /\ focus \in {"wait", "single"}
    /\ probe' = IF probe = "None" THEN "probe" ELSE "None"
    /\ UNCHANGED <<regs, part, focus, pc, op, arg, pre, wire, ret, exc, timeout, polls, rxbuf>>

TimeoutArgs == (0 - 1)..MaxTimeout

WaitValidData ==
    \E t \in TimeoutArgs :
        /\ pc = "idle"
        /\ focus = "wait"
        /\ pc' = "wait"
        /\ op' = "wait_valid_data"
        /\ arg' = t
        /\ pre' = regs
        /\ wire' = <<>>
        /\ ret' = "None"
        /\ exc' = "none"
        /\ timeout' = t
        /\ polls' = 0
        /\ UNCHANGED <<regs, probe, part, focus, rxbuf>>

\* The loop goes on for ever when the countdown starts at or below zero and
\* readiness never comes; the model follows it for MaxTimeout + PollSlack polls.
PollBudget == MaxTimeout + PollSlack

\* Register strategy: the device sets or clears DRDY (bit 7 of register 2)
\* on its own, then answers the read of register 2.
PollRegister ==
    \E drdy \in BOOLEAN :
        LET status == (regs[2] % 128) + (IF drdy THEN 128 ELSE 0)
            dev == [regs EXCEPT ![2] = status]
            step == PollStep(timeout, BitAnd(read_reg(dev, 2), 128) # 0)
        IN  /\ pc = "wait"
            /\ probe = "None"
            /\ polls < PollBudget
            /\ regs' = dev
            /\ wire' = wire \o read_reg_wire(dev, 2)
            /\ polls' = polls + 1
            /\ timeout' = step.timeout
            /\ pc' = IF step.again THEN "wait" ELSE "idle"
            /\ UNCHANGED <<probe, part, focus, op, arg, pre, ret, exc, rxbuf>>

\* the probe strategy reading register 2 as well, after asking the probe
PollProbe_reads_register ==
    \E answer \in BOOLEAN :
        LET step == PollStep(timeout, answer)
        IN  /\ pc = "wait"
            /\ probe # "None"
            /\ polls < PollBudget
            /\ wire' = wire \o <<ProbeEv>> \o read_reg_wire(regs, 2)
            /\ polls' = polls + 1
            /\ timeout' = step.timeout
            /\ pc' = IF step.again THEN "wait" ELSE "idle"
            /\ UNCHANGED <<regs, probe, part, focus, op, arg, pre, ret, exc, rxbuf>>

\* Probe strategy: the installed callable is asked, no transport traffic.
PollProbe ==
    \E answer \in BOOLEAN :
        LET step == PollStep(timeout, answer)
        IN  /\ pc = "wait"
            /\ probe # "None"
            /\ polls < PollBudget
            /\ wire' = wire \o <<ProbeEv>>
            /\ polls' = polls + 1
            /\ timeout' = step.timeout
            /\ pc' = IF step.again THEN "wait" ELSE "idle"
            /\ UNCHANGED <<regs, probe, part, focus, op, arg, pre, ret, exc, rxbuf>>

Next ==
    \/ SetMux \/ GetMux \/ SetGain \/ GetGain \/ SetDisablePga \/ GetDisablePga
    \/ SetDataRate \/ GetDataRate \/ SetVref \/ GetVref
    \/ SetGpio \/ SetGpioDir \/ GetGpio \/ GetGpioDir \/ SetQueryDrdyFunction
    \/ ReadDataStream
    \/ ReadReg \/ WriteReg
    \/ ReadDataSingle \/ ReadDataNormalised \/ ReadTemperature
    \/ AssignProbe \/ WaitValidData \/ PollRegister \/ PollProbe

Spec == Init /\ [][Next]_vars

(***************************************************************************)
(* The transport as pyserial provides it.  serial.read(n) takes up to n    *)
(* bytes of what has been received and returns fewer when its timeout      *)
(* expires first; serial.flush() waits until the output has been written   *)
(* and leaves the receive buffer as it is.  A streaming device goes on     *)
(* sending samples until the powerdown command reaches it.                 *)
(***************************************************************************)
serial_read(avail, n) == SubSeq(avail, 1, IF Len(avail) < n THEN Len(avail) ELSE n)

\* what stays in the receive buffer after serial.read(n)
serial_rest(avail, n) == SubSeq(avail, (IF Len(avail) < n THEN Len(avail) ELSE n) + 1, Len(avail))

serial_flush(buf) == buf

\* read_reg(reg), serial.read() returning rx
read_reg_rx(r, reg, rx) ==
    Returns(r, <<TxEv(RregFrame(reg)), RxEv(1, rx)>>, FromBytesUnsigned(rx))

\* get_gain, serial.read() returning rx
get_gain_rx(r, rx) ==
    LET gain_reg_value == ShiftRight(BitAnd(FromBytesUnsigned(rx), 15), 1)
    IN  Returns(r, <<TxEv(RregFrame(0)), RxEv(1, rx)>>, 2 ^ gain_reg_value)

\* set_gain(value), serial.read() returning rx
set_gain_rx(r, value, rx) ==
    IF value \in GAINS
    THEN LET reg_0 == BitAnd(FromBytesUnsigned(rx), 241)
             data == BitOr(ShiftLeft(Log2(value), 1), reg_0)
         IN  Returns(write_reg(r, 0, data),
                     <<TxEv(RregFrame(0)), RxEv(1, rx)>> \o write_reg_wire(0, data), "None")
    ELSE Raises(r, <<>>, "ValueError")

\* the answer of the device to a register read arrives in time, or not at all
LineAnswers(byte) == {<<byte>>, <<>>}

\* extra samples of READ_DATA_BYTES bytes each, sent after the last one read
Residual(p, extra) ==
    [i \in 1..(extra * READ_DATA_BYTES(p)) |-> DeviceSample(p, 0)[((i - 1) % READ_DATA_BYTES(p)) + 1]]

InitTransport ==
    /\ focus = "line"
    /\ regs = [i \in RegIdx |-> Untouched]
    /\ probe = "None"
    /\ part \in Parts
    /\ pc = "idle"
    /\ op = "__init__"
    /\ arg = "None"
    /\ pre = regs
    /\ wire = <<>>
    /\ ret = "None"
    /\ exc = "none"
    /\ timeout = 0
    /\ polls = 0
    /\ rxbuf = <<>>

LineReadReg ==
    \E reg \in {0, 4} : \E answer \in LineAnswers(regs[reg]) :
        LET avail == rxbuf \o answer
        IN  /\ Call("line", "read_reg", reg, read_reg_rx(regs, reg, serial_read(avail, 1)))
            /\ rxbuf' = serial_rest(avail, 1)

LineGetGain ==
    \E answer \in LineAnswers(regs[0]) :
        LET avail == rxbuf \o answer
        IN  /\ Call("line", "get_gain", "None", get_gain_rx(regs, serial_read(avail, 1)))
            /\ rxbuf' = serial_rest(avail, 1)

LineSetGain ==
    \E value \in {1, 128}, answer \in LineAnswers(regs[0]) :
        LET avail == rxbuf \o answer
        IN  /\ Call("line", "set_gain", value, set_gain_rx(regs, value, serial_read(avail, 1)))
            /\ rxbuf' = serial_rest(avail, 1)

\* read_data(count) with count # 1 on an empty receive buffer: the last
\* sample may come one byte short, and up to MaxResidual samples more may
\* arrive before the device powers down.
LineReadData ==
    \E count \in {2}, short \in BOOLEAN, extra \in 0..MaxResidual :
        \E chunks \in DeviceStreams(part, count) :
            LET last == serial_read(chunks[count], READ_DATA_BYTES(part) - 1)
                got == IF short THEN [chunks EXCEPT ![count] = last] ELSE chunks
            IN  /\ rxbuf = <<>>
                /\ Call("line", "read_data", count, read_data_stream(regs, part, count, got))
                /\ rxbuf' = serial_flush(Residual(part, extra))

NextTransport == LineReadReg \/ LineGetGain \/ LineSetGain \/ LineReadData

SpecTransport == InitTransport /\ [][NextTransport]_vars

(***************************************************************************)
(* Vocabulary of the properties.                                           *)
(***************************************************************************)
\* bit k of the non-negative integer x
Bit(x, k) == (x \div (2 ^ k)) % 2

\* the call o has returned normally
Returned(o) == pc = "idle" /\ op = o /\ exc = "none"

\* where in the traffic of the call the byte sequence data was written
WritesOf(data) == { i \in DOMAIN wire : wire[i].kind = "write" /\ wire[i].data = data }

\* where a register write to register 1 is (command byte 0x42)
WritesToReg1 ==
    { i \in DOMAIN wire : wire[i].kind = "write" /\ Len(wire[i].data) = 3
                          /\ wire[i].data[2] = 66 }

\* where a sample was read: a read of READ_DATA_BYTES bytes
SampleReads == { i \in DOMAIN wire : wire[i].kind = "read" /\ wire[i].n = READ_DATA_BYTES(part) }

\* where readiness was polled: a read of register 2 or a call of the probe
Polls ==
    { i \in DOMAIN wire : \/ wire[i].kind = "probe"
                          \/ wire[i].kind = "write" /\ wire[i].data = <<85, 36>> }

\* the setters and getters of the register fields, with the register each works on
Setters ==
    ("set_mux" :> 0) @@ ("set_gain" :> 0) @@ ("set_disable_pga" :> 0)
    @@ ("set_data_rate" :> 1) @@ ("set_vref" :> 1)
    @@ ("set_gpio" :> 4) @@ ("set_gpio_dir" :> 4)

Getters ==
    ("get_mux" :> 0) @@ ("get_gain" :> 0) @@ ("get_disable_pga" :> 0)
    @@ ("get_data_rate" :> 1) @@ ("get_vref" :> 1)
    @@ ("get_gpio" :> 4) @@ ("get_gpio_dir" :> 4)

\* what the getters of the settings return on the register file r
Settings(r) ==
    [mux |-> get_mux(r).ret, gain |-> get_gain(r).ret, pga |-> get_disable_pga(r).ret,
     data_rate |-> get_data_rate(r).ret, vref |-> get_vref(r).ret,
     gpio_dir |-> [io \in 0..2 |-> get_gpio_dir(r, io).ret]]

\* read_data(count) with count > 1 has returned normally
Streamed == Returned("read_data") /\ arg > 1

\* bytes a and b agree on every bit outside the set of bit positions field
SameOutside(a, b, field) == \A k \in 0..7 : k \notin field => Bit(a, k) = Bit(b, k)

\* the call has changed no register but reg, and every register-write frame
\* it sent (sync, opcode, data) carries the write opcode of reg
WritesOnly(reg) ==
    /\ \A i \in RegIdx \ {reg} : regs[i] = pre[i]
    /\ \A j \in 1..Len(wire) :
           (wire[j].kind = "write" /\ wire[j].n = 3) => wire[j].data[2] = 64 + 2 * reg

\* the call has sent and received nothing and has changed no register
NoTraffic == wire = <<>> /\ regs = pre

(***************************************************************************)
(* C1.  set_data_rate and set_vref, called with a valid argument on any    *)
(* register 1, leave every bit of register 1 outside their own field as it *)
(* was (set_data_rate: field bits 4-7; set_vref: field bits 1-2) and write *)
(* no other register.  The code does not do this: set_vref masks with 0xf1 *)
(* and so also clears bit 3.                                               *)
(***************************************************************************)
C1_Reg1Frame ==
    /\ Returned("set_data_rate") => SameOutside(regs[1], pre[1], 4..7) /\ WritesOnly(1)
    /\ Returned("set_vref") => SameOutside(regs[1], pre[1], 1..2) /\ WritesOnly(1)

(***************************************************************************)
(* C2.  set_mux, set_gain and set_disable_pga, called with a valid         *)
(* argument on any register 0, change only bits 4-7, bits 1-3 and bit 0 of *)
(* register 0, and write no other register.                                *)
(***************************************************************************)
C2_Reg0Frame ==
    /\ Returned("set_mux") => SameOutside(regs[0], pre[0], 4..7) /\ WritesOnly(0)
    /\ Returned("set_gain") => SameOutside(regs[0], pre[0], 1..3) /\ WritesOnly(0)
    /\ Returned("set_disable_pga") => SameOutside(regs[0], pre[0], {0}) /\ WritesOnly(0)

\* set_gain(1) has run on a register 0 with every bit set and has cleared
\* the gain field alone, with one register read and one register write
C2_Witness ==
    /\ Returned("set_gain") /\ arg = 1
    /\ pre[0] = 255 /\ regs[0] = 241
    /\ Len(wire) = 3

(***************************************************************************)
(* C3.  set_gpio(io, v) changes only the value bit of pin io (bit io) and  *)
(* set_gpio_dir(io, d) only its direction bit (bit 4 + io) of register 4,  *)
(* for every register 4, pin in {0,1,2} and v, d in {0,1}; the DRDY-mode   *)
(* bit 3 included, all other bits stay, and no other register is written.  *)
(***************************************************************************)
C3_Reg4Frame ==
    /\ Returned("set_gpio") =>
           SameOutside(regs[4], pre[4], {arg[1]}) /\ WritesOnly(4)
    /\ Returned("set_gpio_dir") =>
           SameOutside(regs[4], pre[4], {4 + arg[1]}) /\ WritesOnly(4)

\* set_gpio_dir(1, 0) has run on a register 4 with every bit set and has
\* cleared the direction bit of pin 1 alone
C3_Witness ==
    /\ Returned("set_gpio_dir") /\ arg = <<1, 0>>
    /\ pre[4] = 255 /\ regs[4] = 223

(***************************************************************************)
(* C4.  Every setter called with a value outside its domain fails with     *)
(* ValueError and has sent nothing, received nothing and changed no        *)
(* register.  The code does not do this: set_data_rate and set_vref read   *)
(* register 1 before they look at the argument, and set_vref then ends in  *)
(* NameError.                                                              *)
(***************************************************************************)
InvalidCall ==
    /\ pc = "idle"
    /\ \/ op = "set_mux" /\ arg \notin DOMAIN MUX_CTRL
       \/ op = "set_gain" /\ arg \notin GAINS
       \/ op = "set_data_rate"
              /\ arg \notin DOMAIN DATA_RATES_NORMAL_MODE \cup DOMAIN DATA_RATES_TURBO_MODE
       \/ op = "set_vref" /\ arg \notin DOMAIN VREF
       \/ op \in {"set_gpio", "set_gpio_dir"}
              /\ (arg[1] \notin {0, 1, 2} \/ arg[2] \notin {0, 1})

C4_InvalidRejectedBeforeIO == InvalidCall => exc = "ValueError" /\ NoTraffic

(***************************************************************************)
(* C5.  After a setter has run with a value v of its domain, on any prior  *)
(* register content, the getter returns v: get_mux after set_mux, get_gain *)
(* after set_gain, get_data_rate after set_data_rate ((v, False) for a     *)
(* rate of the normal table, (v, True) for a turbo rate other than 90),    *)
(* get_vref after set_vref, get_gpio_dir after set_gpio_dir.  The getter's *)
(* answer is that of the getter's handler on the registers the setter      *)
(* left.                                                                   *)
(***************************************************************************)
C5_RoundTrip ==
    /\ Returned("set_mux") => get_mux(regs).ret = arg
    /\ Returned("set_gain") => get_gain(regs).ret = arg
    /\ Returned("set_data_rate") =>
           get_data_rate(regs).ret = <<arg, arg \notin DOMAIN DATA_RATES_NORMAL_MODE>>
    /\ Returned("set_vref") => get_vref(regs).ret = arg
    /\ Returned("set_gpio_dir") => get_gpio_dir(regs, arg[1]).ret = arg[2]

\* set_data_rate(2000) has run on a register 1 that held the code of another
\* rate, and get_data_rate answers (2000, True)
C5_Witness ==
    /\ Returned("set_data_rate") /\ arg = 2000
    /\ pre[1] = 63
    /\ get_data_rate(regs).ret = <<2000, TRUE>>
    /\ get_data_rate(pre).ret = <<90, TRUE>>

(***************************************************************************)
(* Properties of the continuous acquisition, read_data(count), count > 1.  *)
(***************************************************************************)
\* positions of the frame f among the writes of the call
FramesAt(f) == { j \in 1..Len(wire) : wire[j] = TxEv(f) }

\* positions of the reads of n bytes
ReadsAt(n) == { j \in 1..Len(wire) : wire[j].kind = "read" /\ wire[j].n = n }

\* v is the two's-complement value of the bytes data, least significant first
IsLittleEndianSigned(v, data) ==
    LET width == 8 * Len(data)
    IN  /\ v >= 0 - (2 ^ (width - 1))
        /\ v < 2 ^ (width - 1)
        /\ \A i \in 1..Len(data) : ((v + (2 ^ width)) \div (256 ^ (i - 1))) % 256 = data[i]

(***************************************************************************)
(* C6, as the specification states it.  After read_data(count), count > 1, *)
(* registers 1 and 3 hold exactly the values they held before the call,    *)
(* the auto-mode bits already set included.  The code writes back the      *)
(* saved values with bit 3 of register 1 and bit 0 of register 3 cleared.  *)
(***************************************************************************)
C6_RegistersRestoredExactly ==
    Streamed => regs[1] = pre[1] /\ regs[3] = pre[3]

(***************************************************************************)
(* C6, amended.  After read_data(count), count > 1, register 1 holds its   *)
(* pre-call value with bit 3 (0x8) cleared and register 3 its pre-call     *)
(* value with bit 0 (0x1) cleared: both hold exactly their pre-call values *)
(* when those two bits were clear before the call, and auto mode is off in *)
(* every case.                                                             *)
(***************************************************************************)
C6_RegistersRestoredAutoOff ==
    Streamed =>
        /\ regs[1] = pre[1] - 8 * Bit(pre[1], 3)
        /\ regs[3] = pre[3] - Bit(pre[3], 0)
        /\ (Bit(pre[1], 3) = 0 /\ Bit(pre[3], 0) = 0) => (regs[1] = pre[1] /\ regs[3] = pre[3])

\* read_data(2) has run with both auto-mode bits set before the call, and
\* has left both registers changed in that bit alone
C6_Witness ==
    /\ Streamed /\ arg = 2
    /\ pre[1] = 255 /\ pre[3] = 255
    /\ regs[1] = 247 /\ regs[3] = 254

(***************************************************************************)
(* C7.  read_data(count), count > 1, reads exactly count samples of        *)
(* READ_DATA_BYTES bytes each, all of them after the start command and     *)
(* before the powerdown command, and returns count integers, the i-th the  *)
(* little-endian two's-complement value of the i-th chunk received.        *)
(***************************************************************************)
C7_StreamedSamples ==
    Streamed =>
        LET n == READ_DATA_BYTES(part)
            starts == FramesAt(<<85, 8>>)
            stops == FramesAt(<<85, 2>>)
        IN  /\ Cardinality(starts) = 1
            /\ Cardinality(stops) = 1
            /\ Cardinality(ReadsAt(n)) = arg
            /\ \A s \in starts, t \in stops :
                   /\ ReadsAt(n) = (s + 1)..(t - 1)
                   /\ Len(ret) = arg
                   /\ \A i \in 1..arg :
                          /\ Len(wire[s + i].data) = n
                          /\ IsLittleEndianSigned(ret[i], wire[s + i].data)

\* read_data(3) on the 24-bit part has returned 256, -8388608, -1 in the
\* order in which the three chunks arrived
C7_Witness ==
    /\ Streamed /\ arg = 3 /\ part = "AD122U04"
    /\ ret = <<256, 0 - 8388608, 0 - 1>>
    /\ wire[8].data = <<0, 1, 0>>
    /\ wire[9].data = <<0, 0, 128>>
    /\ wire[10].data = <<255, 255, 255>>

(***************************************************************************)
(* C8.  get_gpio(io) returns 1 when the value bit of pin io is set in      *)
(* register 4 and 0 when it is clear; so it returns 0 after                *)
(* set_gpio(io, 0).  The code tests register 4 OR the pin's mask, which is *)
(* never zero: it returns 1 always.                                        *)
(***************************************************************************)
C8_GetGpioReadsPinBit ==
    /\ Returned("get_gpio") => ret = Bit(pre[4], arg)
    /\ (Returned("set_gpio") /\ arg[2] = 0) => get_gpio(regs, arg[1]).ret = 0

(***************************************************************************)
(* C9.  set_query_drdy_funtion(f) completes with the probe installed and   *)
(* bit 3 of register 4 set when f is a probe, with no probe installed and  *)
(* bit 3 cleared when f is None; the other bits of register 4 stay and     *)
(* exactly one write to register 4 is issued.  The code ends in NameError  *)
(* after reading register 4: no write, no assignment of the probe.         *)
(***************************************************************************)
C9_ProbeInstalledAndPinRouted ==
    (pc = "idle" /\ op = "set_query_drdy_funtion") =>
        /\ exc = "none"
        /\ probe = arg
        /\ Bit(regs[4], 3) = (IF arg = "None" THEN 0 ELSE 1)
        /\ SameOutside(regs[4], pre[4], {3})
        /\ WritesOnly(4)
        /\ Cardinality({ j \in 1..Len(wire) : wire[j].kind = "write" /\ wire[j].n = 3 }) = 1

(***************************************************************************)
(* C10.  wait_valid_data(timeout) makes at most timeout readiness polls    *)
(* (none when timeout is zero or negative), for every integer timeout and  *)
(* whatever the device or the probe answers.  The code polls before it     *)
(* looks at the countdown, and ends the loop only when the countdown is    *)
(* exactly zero after a decrement: with timeout <= 0 it polls at least     *)
(* once and, while readiness does not come, without end.                   *)
(***************************************************************************)
C10_PollsWithinTimeout ==
    op = "wait_valid_data" => polls <= (IF arg > 0 THEN arg ELSE 0)


(***************************************************************************)
(* C11.  For every index idx >= 0, read_reg(idx) makes exactly one write   *)
(* of the two bytes [0x55, 0x20 | ((idx * 2) & 0xF)] followed by exactly   *)
(* one read of one byte, and write_reg(idx, v) makes exactly one write of  *)
(* the three bytes [0x55, 0x40 | ((idx * 2) & 0xF), v] and no read.  The   *)
(* address field stays within four bits: index 7 gives 0xE, index 8 gives  *)
(* the frame of index 0.                                                   *)
(***************************************************************************)
C11_RegisterFrames ==
    /\ Returned("read_reg") =>
          /\ Len(wire) = 2
          /\ wire[1].kind = "write"
          /\ wire[1].data = <<85, 32 + ((2 * arg) % 16)>>
          /\ wire[2].kind = "read" /\ wire[2].n = 1 /\ Len(wire[2].data) = 1
          /\ wire[1].data[2] - 32 \in 0..15
          /\ (arg = 7 => wire[1].data[2] = 32 + 14)
          /\ (arg = 8 => wire[1].data = <<85, 32>>)
    /\ Returned("write_reg") =>
          /\ Len(wire) = 1
          /\ wire[1].kind = "write"
          /\ wire[1].data = <<85, 64 + ((2 * arg[1]) % 16), arg[2]>>
          /\ wire[1].data[2] - 64 \in 0..15
          /\ (arg[1] = 7 => wire[1].data[2] = 64 + 14)
          /\ (arg[1] = 8 => wire[1].data = <<85, 64, arg[2]>>)

\* read_reg(8) has put the frame of register 0 on the wire and returned the
\* byte of register 0
C11_Witness ==
    /\ Returned("read_reg") /\ arg = 8
    /\ wire[1].data = <<85, 32>>
    /\ wire[2].data = <<regs[0]>>
    /\ regs[0] = 165 /\ ret = 165

(***************************************************************************)
(* C12.  A short read (the transport returning fewer bytes than asked for) *)
(* ends the call in an error: no getter, setter or sample read completes   *)
(* normally with a value derived from a short read, and no register write  *)
(* is issued after a short read of the register being modified.            *)
(***************************************************************************)
C12_ShortReadPropagated ==
    pc = "idle" =>
        \A i \in DOMAIN wire :
            (wire[i].kind = "read" /\ Len(wire[i].data) < wire[i].n) =>
                /\ exc # "none"
                /\ \A j \in DOMAIN wire : j > i => wire[j].kind # "write"

(***************************************************************************)
(* C13.  read_data_normalised() returns the single-sample result divided   *)
(* by 2^READ_DATA_BITS, a fraction in [-1, 1), for both parts.             *)
(***************************************************************************)
C13_NormalisedReturned ==
    Returned("read_data_normalised") =>
        /\ ret # "None"
        /\ ret.num = FromBytesSigned(wire[Len(wire)].data)
        /\ ret.den = 2 ^ READ_DATA_BITS(part)
        /\ (0 - ret.den) <= ret.num /\ ret.num < ret.den

(***************************************************************************)
(* C14.  For every value r of register 1, read_temperature sets bit 0 of   *)
(* register 1 before any start command, keeps it set until the raw sample  *)
(* has been read, and leaves register 1 equal to r when it returns.        *)
(* Register 1 changes by the writes of the driver only: there are two in   *)
(* the call, r with bit 0 set ahead of every start and of the sample read, *)
(* and r itself after the sample read.                                     *)
(***************************************************************************)
C14_TemperatureModeBracket ==
    Returned("read_temperature") =>
        /\ Cardinality(WritesToReg1) = 2
        /\ SampleReads # {} /\ WritesOf(<<85, 8>>) # {}
        /\ \E a \in WritesToReg1, b \in WritesToReg1 :
              /\ a < b
              /\ wire[a].data[3] = pre[1] + 1 - (pre[1] % 2)
              /\ \A s \in WritesOf(<<85, 8>>) : a < s
              /\ \A m \in SampleReads : a < m /\ m < b
              /\ wire[b].data[3] = pre[1]
        /\ regs[1] = pre[1]

\* read_temperature on a register 1 of 0xA4 and on one of 0xA5 (bit 0 set
\* before the call): both times TS mode is written as 0xA5, and the last
\* write puts the register back
C14_Witness ==
    /\ Returned("read_temperature")
    /\ pre[1] = 164
    /\ wire[3].data = <<85, 66, 165>>
    /\ wire[Len(wire)].data = <<85, 66, 164>>
    /\ regs[1] = 164
    /\ Len(wire) > 2 * DEFAULT_TIMEOUT

(***************************************************************************)
(* C15.  The two readiness strategies exclude each other.  With no probe   *)
(* installed every step of wait_valid_data is one read of register 2 (the  *)
(* frame [0x55, 0x24] and a read of one byte) and no probe call; with a    *)
(* probe installed every step is one probe call and no transport read or   *)
(* write.                                                                  *)
(***************************************************************************)
C15_StrategiesExclusive ==
    [][pc = "wait" =>
         IF probe = "None"
         THEN /\ Len(wire') = Len(wire) + 2
              /\ SubSeq(wire', 1, Len(wire)) = wire
              /\ wire'[Len(wire) + 1] = [kind |-> "write", n |-> 2, data |-> <<85, 36>>]
              /\ wire'[Len(wire) + 2].kind = "read"
              /\ wire'[Len(wire) + 2].n = 1
              /\ wire'[Len(wire) + 2].data = <<regs'[2]>>
         ELSE /\ wire' = wire \o <<[kind |-> "probe", n |-> 0, data |-> <<>>]>>
              /\ regs' = regs]_vars

\* wait_valid_data with a probe installed has polled twice and is still in
\* its loop: two probe calls and nothing else, the registers as they were
C15_Witness ==
    /\ op = "wait_valid_data" /\ pc = "wait" /\ polls = 2
    /\ probe = "probe"
    /\ wire = <<[kind |-> "probe", n |-> 0, data |-> <<>>],
                [kind |-> "probe", n |-> 0, data |-> <<>>]>>
    /\ regs = pre

(***************************************************************************)
(* C16.  Every call of set_mux, set_gain, set_disable_pga, set_data_rate,  *)
(* set_vref, set_gpio, set_gpio_dir with valid input makes exactly one     *)
(* register read followed by exactly one register write, both addressed to *)
(* the register of the setting; every call of get_mux, get_gain,           *)
(* get_disable_pga, get_data_rate, get_vref, get_gpio, get_gpio_dir that   *)
(* returns makes exactly one register read and no register write.          *)
(***************************************************************************)
C16_OneReadOneWrite ==
    /\ \A o \in DOMAIN Setters :
          Returned(o) =>
              /\ Len(wire) = 3
              /\ wire[1] = [kind |-> "write", n |-> 2, data |-> <<85, 32 + (2 * Setters[o])>>]
              /\ wire[2].kind = "read" /\ wire[2].n = 1
              /\ wire[3].kind = "write" /\ wire[3].n = 3
              /\ SubSeq(wire[3].data, 1, 2) = <<85, 64 + (2 * Setters[o])>>
    /\ \A o \in DOMAIN Getters :
          Returned(o) =>
              /\ Len(wire) = 2
              /\ wire[1] = [kind |-> "write", n |-> 2, data |-> <<85, 32 + (2 * Getters[o])>>]
              /\ wire[2].kind = "read" /\ wire[2].n = 1

\* set_gpio_dir(1, 1) on a register 4 of zero: the read of register 4, then
\* the write of 0x20 to register 4
C16_Witness ==
    /\ Returned("set_gpio_dir") /\ arg = <<1, 1>>
    /\ wire = <<[kind |-> "write", n |-> 2, data |-> <<85, 40>>],
                [kind |-> "read", n |-> 1, data |-> <<0>>],
                [kind |-> "write", n |-> 3, data |-> <<85, 72, 32>>]>>

(***************************************************************************)
(* C17.  When read_data(count) with count > 1 returns, the sample bytes    *)
(* the streaming device sent after the count-th sample have been discarded *)
(* from the receive buffer, so that the next register read receives the    *)
(* byte of the register it asked for and no stale sample byte.             *)
(***************************************************************************)
C17_ResidualDiscarded ==
    /\ Streamed => rxbuf = <<>>
    /\ (Returned("read_reg") /\ Len(wire[2].data) = 1) => wire[2].data = <<pre[arg]>>

(***************************************************************************)
(* C18.  read_temperature makes exactly one single-sample acquisition      *)
(* between the write that enables TS mode and the write that restores      *)
(* register 1: exactly one start command, then the readiness polls of one  *)
(* wait, then one raw-data read command.                                   *)
(***************************************************************************)
C18_OneAcquisition ==
    Returned("read_temperature") =>
        /\ Cardinality(WritesOf(<<85, 8>>)) = 1
        /\ Cardinality(WritesOf(<<85, 16>>)) = 1
        /\ \E s \in WritesOf(<<85, 8>>), d \in WritesOf(<<85, 16>>) :
              /\ s < d
              /\ Polls # {}
              /\ \A q \in Polls : s < q /\ q < d

(***************************************************************************)
(* C19.  read_data() with count = 1 issues the start command, then polls   *)
(* readiness, then issues exactly one raw-data read command and returns    *)
(* the sample decoded as a little-endian signed integer.  It never raises: *)
(* when the budget of 100 polls is used up without readiness having been   *)
(* observed, it reads and returns the sample all the same.                 *)
(***************************************************************************)
C19_SingleSampleSequence ==
    (pc = "idle" /\ op = "read_data" /\ arg = 1) =>
        /\ exc = "none"
        /\ wire[1] = [kind |-> "write", n |-> 2, data |-> <<85, 8>>]
        /\ WritesOf(<<85, 8>>) = {1}
        /\ WritesOf(<<85, 16>>) = {Len(wire) - 1}
        /\ SampleReads = {Len(wire)}
        /\ Polls # {} /\ Cardinality(Polls) <= 100
        /\ \A i \in 2..(Len(wire) - 2) :
              \/ i \in Polls
              \/ i - 1 \in Polls /\ wire[i].kind = "read" /\ wire[i].n = 1
        /\ IsLittleEndianSigned(ret, wire[Len(wire)].data)

\* read_data() on a device that never reports readiness: start, 100 reads
\* of register 2 with DRDY clear, the raw-data read, and the sample -1
\* returned
C19_Witness ==
    /\ Returned("read_data") /\ arg = 1 /\ part = "AD112U04"
    /\ Cardinality(Polls) = 100
    /\ \A q \in Polls : wire[q].kind = "write" /\ wire[q + 1].data[1] < 128
    /\ wire[Len(wire) - 1].data = <<85, 16>>
    /\ wire[Len(wire)].data = <<255, 255>>
    /\ ret = 0 - 1

(***************************************************************************)
(* C20.  The settings are independent under any interleaving of valid      *)
(* setter calls, from any register contents: each getter returns the value *)
(* most recently set for its own setting, whatever setters of other        *)
(* settings of the same register were called since.  Stated on every call: *)
(* a valid call of set_mux, set_gain, set_disable_pga, set_data_rate,      *)
(* set_vref or set_gpio_dir makes the getter of its own setting return the *)
(* value set (for the data rate, with the turbo flag of the table the      *)
(* value is in; for the direction, of the pin set) and leaves what every   *)
(* other getter returns as it was before the call; set_gpio leaves all of  *)
(* them as they were.  By induction over the calls, a getter returns the   *)
(* value of the last setter call of its setting.                           *)
(***************************************************************************)
C20_SettingsIndependent ==
    /\ Returned("set_mux") => Settings(regs) = [Settings(pre) EXCEPT !.mux = arg]
    /\ Returned("set_gain") => Settings(regs) = [Settings(pre) EXCEPT !.gain = arg]
    /\ Returned("set_disable_pga") => Settings(regs) = [Settings(pre) EXCEPT !.pga = arg]
    /\ Returned("set_data_rate") =>
          Settings(regs) = [Settings(pre) EXCEPT !.data_rate =
                                <<arg, arg \in {40, 180, 350, 660, 1200, 2000}>>]
    /\ Returned("set_vref") => Settings(regs) = [Settings(pre) EXCEPT !.vref = arg]
    /\ Returned("set_gpio_dir") =>
          Settings(regs) = [Settings(pre) EXCEPT !.gpio_dir[arg[1]] = arg[2]]
    /\ Returned("set_gpio") => Settings(regs) = Settings(pre)

\* set_vref("EXTERNAL") has changed register 1 and get_data_rate returns
\* the turbo rate 2000 as before the call; get_vref returns the new source
C20_Witness ==
    /\ Returned("set_vref") /\ arg = "EXTERNAL"
    /\ regs[1] # pre[1]
    /\ get_data_rate(pre).ret = <<2000, TRUE>>
    /\ get_data_rate(regs).ret = <<2000, TRUE>>
    /\ get_vref(regs).ret = "EXTERNAL"
====
